---------------------------- MODULE Spec2Model ----------------------------
(***************************************************************************)
(* The REST API gateway of the node: the RestAPIV1 plugin (package v1) and *)
(* the Debug plugin (package debug).  The model follows the two plugins    *)
(* through start-up (dependency injection, configure, feature              *)
(* contributions) and then through the requests served by the routes they  *)
(* registered.                                                             *)
(***************************************************************************)
EXTENDS Naturals, Sequences, FiniteSets, TLC

(***************************************************************************)
(* Bounds of the model.                                                    *)
(***************************************************************************)
MaxMissing == 2        \* dependencies absent from the container, at most
MaxFeatures == 3       \* AddFeature calls in one process lifetime, at most

(***************************************************************************)
(* Program constants.                                                      *)
(***************************************************************************)
\* A mutant of waitForNodeSyncedTimeout: the wait is cut to one second.
waitForNodeSyncedTimeoutShort == 10 * 100

waitForNodeSyncedTimeout == 2000       \* milliseconds

StatusOK == 200
StatusCreated == 201
StatusNoContent == 204
StatusBadRequest == 400
StatusNotFound == 404
StatusInternalServerError == 500
StatusServiceUnavailable == 503

V1Group == "/api/v1"
DebugGroup == "/api/plugins/debug"

RouteInfo == "/info"
RouteTips == "/tips"
RouteMessageData == "/messages/:messageID"
RouteMessageMetadata == "/messages/:messageID/metadata"
RouteMessageBytes == "/messages/:messageID/raw"
RouteMessageChildren == "/messages/:messageID/children"
RouteMessages == "/messages"
RouteTransactionsIncludedMessage == "/transactions/:transactionID/included-message"
RouteMilestone == "/milestones/:milestoneIndex"
RouteMilestoneUTXOChanges == "/milestones/:milestoneIndex/utxo-changes"
RouteOutputs == "/outputs"
RouteOutput == "/outputs/:outputID"
RouteAddressBech32Outputs == "/addresses/:address/outputs"
RouteAddressEd25519Outputs == "/addresses/ed25519/:address/outputs"
RouteAddressAliasOutputs == "/addresses/alias/:address/outputs"
RouteAddressNFTOutputs == "/addresses/nft/:address/outputs"
RouteAlias == "/aliases/:aliasID"
RouteNFT == "/nft/:nftID"
RouteFoundry == "/foundries/:foundryID"
RouteTreasury == "/treasury"
RouteReceipts == "/receipts"
RouteReceiptsMigratedAtIndex == "/receipts/:milestoneIndex"
RoutePeer == "/peers/:peerID"
RoutePeers == "/peers"
RouteControlDatabasePrune == "/control/database/prune"
RouteControlSnapshotsCreate == "/control/snapshots/create"

RouteDebugSolidifier == "/solidifier"
RouteDebugOutputs == "/outputs"
RouteDebugOutputsUnspent == "/outputs/unspent"
RouteDebugOutputsSpent == "/outputs/spent"
RouteDebugAddresses == "/addresses"
RouteDebugAddressesEd25519 == "/addresses/ed25519"
RouteDebugMilestoneDiffs == "/ms-diff/:milestoneIndex"
RouteDebugRequests == "/requests"
RouteDebugMessageCone == "/message-cones/:messageID"

(***************************************************************************)
(* A registered route: the group it was registered on, method and path.    *)
(***************************************************************************)
R(g, m, p) == [group |-> g, method |-> m, path |-> p]

(***************************************************************************)
(* The fields of the v1 plugin's dependencies struct.  Every field without *)
(* an optional tag is mandatory for the injection.                         *)
(***************************************************************************)
V1OptionalDeps == {"TipSelector", "Echo"}

V1MandatoryDeps ==
    {"Storage", "SyncManager", "Tangle", "PeeringManager", "GossipService",
     "UTXOManager", "PoWHandler", "MessageProcessor", "SnapshotManager",
     "AppInfo", "NodeConfig", "PeeringConfigManager", "NetworkID",
     "NetworkIDName", "DeserializationParameters",
     "MaxDeltaMsgYoungestConeRootIndexToCMI",
     "MaxDeltaMsgOldestConeRootIndexToCMI", "BelowMaxDepth", "MinPoWScore",
     "Bech32HRP", "RestAPILimitsMaxResults", "SnapshotsFullPath",
     "SnapshotsDeltaPath"}

\* The fields of the debug plugin's dependencies struct: none is optional.
DebugMandatoryDeps == {"Storage", "Tangle", "RequestQueue", "UTXOManager", "Echo"}

AllDeps == V1MandatoryDeps \cup V1OptionalDeps \cup DebugMandatoryDeps

\* A mutant of DebugPluginStatus: the plugin is created enabled.
DebugPluginStatusEnabled == "Enabled"

\* The status the debug plugin is created with.
DebugPluginStatus == "Disabled"

FeatureNames == {"f1", "f2"}

VARIABLES
    provided,        \* the dependencies the container can supply
    restapiSkipped,  \* Plugin.Node.IsSkipped(restapi.Plugin)
    cfgPoWEnabled,   \* NodeConfig.Bool(CfgRestAPIPoWEnabled)
    debugEnabled,    \* the Debug plugin is named in the node's enabled plugins
    phase,           \* "startup", "serving" or "fatal"
    v1,              \* the v1 plugin: "loaded", "injected", "configured"
    dbg,             \* the debug plugin: "loaded", "injected", "configured"
    deps,            \* v1's deps: the names of the non-nil handles
    powEnabled,      \* v1's powEnabled
    features,        \* v1's features
    routes,          \* the routes registered on the router
    resp,            \* the response to the last request served
    addsBefore,      \* history: the AddFeature calls made before serving
    addsAfter,       \* history: the AddFeature calls made while serving
    synced,          \* the node's sync state, as the sync manager reports it
    gate,            \* the sync gate of the gated request in flight
    store,           \* the message store: message id -> accepted bytes
    submitted,       \* history: message id -> the bytes POST /messages was given
    peers,           \* the peering manager's known peers
    prevPeers,       \* history: the known peers before the last peer request
    removed          \* history: the peers removed and not added again

vars == <<provided, restapiSkipped, cfgPoWEnabled, debugEnabled, phase, v1, dbg,
          deps, powEnabled, features, routes, resp, addsBefore, addsAfter,
          synced, gate, store, submitted, peers, prevPeers, removed>>

startupVars == <<phase, v1, dbg, deps, powEnabled, routes>>
featureVars == <<features, addsBefore, addsAfter>>
messageVars == <<synced, gate, store, submitted>>
peerVars == <<peers, prevPeers, removed>>

inputs == <<provided, restapiSkipped, cfgPoWEnabled, debugEnabled>>

\* No request has been served yet.
NoResp == [route |-> R("", "", ""), param |-> "", kind |-> "none", err |-> "",
           status |-> 0, location |-> "", body |-> ""]

\* No gated request is in flight.
NoGate == [st |-> "Unchecked", elapsed |-> 0, body |-> <<>>, executed |-> FALSE,
           resp |-> NoResp]

(***************************************************************************)
(* The routes configure registers on the /api/v1 group whatever the        *)
(* dependencies are.                                                       *)
(***************************************************************************)
V1FixedRoutes ==
    {R(V1Group, "GET", RouteInfo),
     R(V1Group, "GET", RouteMessageMetadata),
     R(V1Group, "GET", RouteMessageData),
     R(V1Group, "GET", RouteMessageBytes),
     R(V1Group, "GET", RouteMessageChildren),
     R(V1Group, "GET", RouteMessages),
     R(V1Group, "POST", RouteMessages),
     R(V1Group, "GET", RouteTransactionsIncludedMessage),
     R(V1Group, "GET", RouteMilestone),
     R(V1Group, "GET", RouteMilestoneUTXOChanges),
     R(V1Group, "GET", RouteOutputs),
     R(V1Group, "GET", RouteOutput),
     R(V1Group, "GET", RouteAddressBech32Outputs),
     R(V1Group, "GET", RouteAddressEd25519Outputs),
     R(V1Group, "GET", RouteAddressAliasOutputs),
     R(V1Group, "GET", RouteAddressNFTOutputs),
     R(V1Group, "GET", RouteAlias),
     R(V1Group, "GET", RouteNFT),
     R(V1Group, "GET", RouteFoundry),
     R(V1Group, "GET", RouteTreasury),
     R(V1Group, "GET", RouteReceipts),
     R(V1Group, "GET", RouteReceiptsMigratedAtIndex),
     R(V1Group, "GET", RoutePeer),
     R(V1Group, "DELETE", RoutePeer),
     R(V1Group, "GET", RoutePeers),
     R(V1Group, "POST", RoutePeers),
     R(V1Group, "POST", RouteControlDatabasePrune),
     R(V1Group, "POST", RouteControlSnapshotsCreate)}

TipsRoute == R(V1Group, "GET", RouteTips)

\* A mutant of V1TipsRoutes: the tips route is registered unconditionally.
V1TipsRoutesAlways(d) == {TipsRoute}

\* "only handle tips api calls if the URTS plugin is enabled"
V1TipsRoutes(d) == IF "TipSelector" \in d THEN {TipsRoute} ELSE {}

\* The routes the debug plugin's configure registers.
DebugRoutes ==
    {R(DebugGroup, "GET", RouteDebugSolidifier),
     R(DebugGroup, "GET", RouteDebugOutputs),
     R(DebugGroup, "GET", RouteDebugOutputsUnspent),
     R(DebugGroup, "GET", RouteDebugOutputsSpent),
     R(DebugGroup, "GET", RouteDebugAddresses),
     R(DebugGroup, "GET", RouteDebugAddressesEd25519),
     R(DebugGroup, "GET", RouteDebugMilestoneDiffs),
     R(DebugGroup, "GET", RouteDebugRequests),
     R(DebugGroup, "GET", RouteDebugMessageCone)}

MessageIDs == {"m1", "m2"}
MessageBytes == {<<1>>, <<1, 2>>}
PeerIDs == {"p1", "p2"}

\* The subsets of S of at most k elements.
RECURSIVE SubsetsUpTo(_, _)
SubsetsUpTo(S, k) ==
    IF k = 0 THEN {{}}
    ELSE LET prev == SubsetsUpTo(S, k - 1)
         IN  prev \cup {s \cup {x} : s \in prev, x \in S}

Init ==
    /\ \E missing \in SubsetsUpTo(AllDeps, MaxMissing) : provided = AllDeps \ missing
    /\ restapiSkipped \in BOOLEAN
    /\ cfgPoWEnabled \in BOOLEAN
    /\ debugEnabled \in BOOLEAN
    /\ phase = "startup"
    /\ v1 = "loaded"
    /\ dbg = "loaded"
    /\ deps = {}
    /\ powEnabled = FALSE
    /\ features = <<>>
    /\ routes = {}
    /\ resp = NoResp
    /\ addsBefore = <<>>
    /\ addsAfter = <<>>
    /\ synced = FALSE
    /\ gate = NoGate
    /\ store = <<>>
    /\ submitted = <<>>
    /\ peers = {}
    /\ prevPeers = peers
    /\ removed = {}

(***************************************************************************)
(* Start-up.                                                               *)
(***************************************************************************)

\* The node framework skips a plugin created Disabled unless the node's
\* configuration enables it by name.
IsSkipped(status, enabledByName) == status = "Disabled" /\ ~enabledByName

DebugSkipped == IsSkipped(DebugPluginStatus, debugEnabled)

\* The container can fill a dependencies struct when it can supply every
\* field that carries no optional tag.
CanInject(mandatory) == mandatory \subseteq provided

\* The process dies: a failed injection or a panic in configure.
Fatal ==
    /\ phase' = "fatal"
    /\ UNCHANGED <<v1, dbg, deps, routes>>

\* DepsFunc of the v1 plugin: deps = cDeps.
InjectV1 ==
    /\ phase = "startup"
    /\ v1 = "loaded"
    /\ IF CanInject(V1MandatoryDeps)
         THEN /\ deps' = provided \cap (V1MandatoryDeps \cup V1OptionalDeps)
              /\ v1' = "injected"
              /\ UNCHANGED <<phase, dbg, routes>>
         ELSE Fatal
    /\ UNCHANGED <<inputs, powEnabled, featureVars, resp, messageVars, peerVars>>

\* A mutant of SkippedPanics: the check of the RestAPI plugin is missing.
SkippedPanicsNever(skipped) == FALSE

\* "check if RestAPI plugin is disabled": configure panics when it is.
SkippedPanics(skipped) == skipped

\* A mutant of InitialFeatures: "PoW" is advertised whatever the configuration.
InitialFeaturesAlways(pow) == <<"PoW">>

\* "Check for features": the list configure starts from.
InitialFeatures(pow) == IF pow THEN <<"PoW">> ELSE <<>>

\* configure of the v1 plugin.
ConfigureV1 ==
    /\ phase = "startup"
    /\ v1 = "injected"
    /\ IF SkippedPanics(restapiSkipped)
         THEN \* LogPanic before anything is assigned
              /\ Fatal
              /\ UNCHANGED <<powEnabled, features>>
         ELSE IF "Echo" \notin deps
         THEN \* deps.Echo is nil: the first use of the router panics, at the
              \* group or at the first registration, before any route exists
              /\ Fatal
              /\ \E assigned \in BOOLEAN :
                    IF assigned
                      THEN /\ powEnabled' = cfgPoWEnabled
                           /\ features' = InitialFeatures(cfgPoWEnabled)
                      ELSE UNCHANGED <<powEnabled, features>>
         ELSE /\ powEnabled' = cfgPoWEnabled
              /\ features' = InitialFeatures(cfgPoWEnabled)
              /\ routes' = routes \cup V1FixedRoutes \cup V1TipsRoutes(deps)
              /\ v1' = "configured"
              /\ UNCHANGED <<phase, dbg, deps>>
    /\ UNCHANGED <<inputs, addsBefore, addsAfter, resp, messageVars, peerVars>>

\* DepsFunc of the debug plugin, which runs unless the plugin is skipped.
InjectDebug ==
    /\ phase = "startup"
    /\ dbg = "loaded"
    /\ ~DebugSkipped
    /\ IF CanInject(DebugMandatoryDeps)
         THEN /\ dbg' = "injected"
              /\ UNCHANGED <<phase, v1, deps, routes>>
         ELSE Fatal
    /\ UNCHANGED <<inputs, powEnabled, featureVars, resp, messageVars, peerVars>>

\* configure of the debug plugin.
ConfigureDebug ==
    /\ phase = "startup"
    /\ dbg = "injected"
    /\ routes' = routes \cup DebugRoutes
    /\ dbg' = "configured"
    /\ UNCHANGED <<phase, v1, deps>>
    /\ UNCHANGED <<inputs, powEnabled, featureVars, resp, messageVars, peerVars>>

\* Every plugin that is not skipped is configured: the router starts to serve.
StartServing ==
    /\ phase = "startup"
    /\ v1 = "configured"
    /\ DebugSkipped \/ dbg = "configured"
    /\ phase' = "serving"
    /\ UNCHANGED <<v1, dbg, deps, routes>>
    /\ UNCHANGED <<inputs, powEnabled, featureVars, resp, messageVars, peerVars>>

\* AddFeature(feature), called by any module at any time of the process.
AddFeature(feature) ==
    /\ phase # "fatal"
    /\ Len(addsBefore) + Len(addsAfter) < MaxFeatures
    /\ features' = Append(features, feature)
    /\ IF phase = "startup"
         THEN addsBefore' = Append(addsBefore, feature) /\ UNCHANGED addsAfter
         ELSE addsAfter' = Append(addsAfter, feature) /\ UNCHANGED addsBefore
    /\ UNCHANGED <<inputs, startupVars, resp, messageVars, peerVars>>

(***************************************************************************)
(* Responses.  A handler either returns the operation's error to the       *)
(* router, which turns it into a status, or writes a success response.     *)
(***************************************************************************)

\* What an operation returned: err is "" when it succeeded.
Ok(value) == [err |-> "", value |-> value]
Failed(e) == [err |-> e, value |-> ""]

ErrKinds == {"InvalidParameter", "NotFound", "NotSynced", "Internal"}

\* The single error-to-status translation.
StatusOf(e) ==
    CASE e = "NotSynced" -> StatusServiceUnavailable
      [] e = "InvalidParameter" -> StatusBadRequest
      [] e = "NotFound" -> StatusNotFound
      [] OTHER -> StatusInternalServerError

\* The router finds no route for the request.
Unrouted(r, p) ==
    [route |-> r, param |-> p, kind |-> "unrouted", err |-> "",
     status |-> StatusNotFound, location |-> "", body |-> ""]

\* return err
ErrorResponse(r, p, e) ==
    [route |-> r, param |-> p, kind |-> "error", err |-> e,
     status |-> StatusOf(e), location |-> "", body |-> ""]

\* restapipkg.JSONResponse(c, status, resp)
JSONResponse(r, p, status, value) ==
    [route |-> r, param |-> p, kind |-> "json", err |-> "",
     status |-> status, location |-> "", body |-> value]

\* c.Blob(status, echo.MIMEOctetStream, resp)
Blob(r, p, status, bytes) ==
    [route |-> r, param |-> p, kind |-> "blob", err |-> "",
     status |-> status, location |-> "", body |-> bytes]

\* c.NoContent(status)
NoContent(r, p, status) ==
    [route |-> r, param |-> p, kind |-> "nocontent", err |-> "",
     status |-> status, location |-> "", body |-> ""]

\* The handler every structured route shares.
HandleJSON(r, p, out) ==
    IF out.err # "" THEN ErrorResponse(r, p, out.err)
    ELSE JSONResponse(r, p, StatusOK, out.value)

InfoRoute == R(V1Group, "GET", RouteInfo)
PostMessagesRoute == R(V1Group, "POST", RouteMessages)
MessageBytesRoute == R(V1Group, "GET", RouteMessageBytes)
DeletePeerRoute == R(V1Group, "DELETE", RoutePeer)
ListPeersRoute == R(V1Group, "GET", RoutePeers)
AddPeerRoute == R(V1Group, "POST", RoutePeers)
SolidifierRoute == R(DebugGroup, "GET", RouteDebugSolidifier)

(***************************************************************************)
(* Node introspection and the routes that only pass a result through.      *)
(***************************************************************************)

\* info(): the response carries the feature list as it is at the call.
info == Ok(features)

\* GET /info
GetInfo ==
    /\ phase = "serving"
    /\ resp' = IF InfoRoute \in routes
                 THEN HandleJSON(InfoRoute, "", info)
                 ELSE Unrouted(InfoRoute, "")
    /\ UNCHANGED <<inputs, startupVars, featureVars, messageVars, peerVars>>

\* The routes served by Serve: their operations keep no state of the model.
PassThroughRoutes ==
    ((V1FixedRoutes \cup {TipsRoute} \cup DebugRoutes)
        \ {InfoRoute, PostMessagesRoute, MessageBytesRoute,
           DeletePeerRoute, ListPeersRoute, AddPeerRoute})

\* What the operation behind a pass-through route may return.
Outcomes(r) ==
    IF r = SolidifierRoute THEN {Ok("solidifier triggered")}
    ELSE {Ok("resp")} \cup {Failed(e) : e \in ErrKinds}

\* A request for a pass-through route.
Serve(r) ==
    /\ phase = "serving"
    /\ IF r \in routes
         THEN \E out \in Outcomes(r) : resp' = HandleJSON(r, "", out)
         ELSE resp' = Unrouted(r, "")
    /\ UNCHANGED <<inputs, startupVars, featureVars, messageVars, peerVars>>

StartupNext ==
    \/ InjectV1
    \/ ConfigureV1
    \/ InjectDebug
    \/ ConfigureDebug
    \/ StartServing

\* Start-up, then requests for the pass-through routes.
Next ==
    \/ StartupNext
    \/ \E r \in PassThroughRoutes : Serve(r)

Spec == Init /\ [][Next]_vars

\* Start-up with feature contributions, then info requests.
NextFeatures ==
    \/ StartupNext
    \/ \E f \in FeatureNames : AddFeature(f)
    \/ GetInfo

SpecFeatures == Init /\ [][NextFeatures]_vars

(***************************************************************************)
(* Message operations.  POST /messages is sync-gated: the submission runs  *)
(* once the gate reports Synced and is abandoned when it times out.        *)
(***************************************************************************)

\* The moments, in milliseconds after the check began, at which the model
\* looks at a waiting request; the deadline is always one of them.
Instants == {1, 1000, 1999, 2000} \cup {waitForNodeSyncedTimeout}

\* A mutant of HandlePostMessages: the response says "ok", not "created".
HandlePostMessagesOK(p, out) ==
    IF out.err # "" THEN ErrorResponse(PostMessagesRoute, p, out.err)
    ELSE [JSONResponse(PostMessagesRoute, p, StatusOK, out.value)
            EXCEPT !.location = out.value]

\* The handler of POST /messages.
HandlePostMessages(p, out) ==
    IF out.err # "" THEN ErrorResponse(PostMessagesRoute, p, out.err)
    ELSE [JSONResponse(PostMessagesRoute, p, StatusCreated, out.value)
            EXCEPT !.location = out.value]

\* A mutant of HandleMessageBytes: the bytes go through the structured
\* encoder, which does not write them as they are.
HandleMessageBytesJSON(p, out) ==
    IF out.err # "" THEN ErrorResponse(MessageBytesRoute, p, out.err)
    ELSE JSONResponse(MessageBytesRoute, p, StatusOK, <<out.value>>)

\* The handler of GET /messages/:messageID/raw.
HandleMessageBytes(p, out) ==
    IF out.err # "" THEN ErrorResponse(MessageBytesRoute, p, out.err)
    ELSE Blob(MessageBytesRoute, p, StatusOK, out.value)

\* A gated request ended: the next one may begin.
GateFree ==
    \/ gate.st = "Unchecked"
    \/ gate.st = "TimedOut"
    \/ gate.st = "Synced" /\ gate.executed

\* POST /messages arrives: the gate checks the sync state.
PostMessagesBegin(bytes) ==
    /\ phase = "serving"
    /\ PostMessagesRoute \in routes
    /\ GateFree
    /\ gate' = [st |-> IF synced THEN "Synced" ELSE "Waiting",
                elapsed |-> 0, body |-> bytes, executed |-> FALSE,
                resp |-> NoResp]
    /\ UNCHANGED <<inputs, startupVars, featureVars, resp, synced, store,
                   submitted, peerVars>>

\* Time passes for the waiting request; at the deadline the wait is over
\* and the handler returns the "node not synced" failure.
Tick(t) ==
    /\ gate.st = "Waiting"
    /\ t > gate.elapsed
    /\ t <= waitForNodeSyncedTimeout
    /\ IF t = waitForNodeSyncedTimeout
         THEN /\ resp' = HandlePostMessages("", Failed("NotSynced"))
              /\ gate' = [gate EXCEPT !.st = "TimedOut", !.elapsed = t,
                                      !.resp = resp']
         ELSE /\ gate' = [gate EXCEPT !.elapsed = t]
              /\ UNCHANGED resp
    /\ UNCHANGED <<inputs, startupVars, featureVars, synced, store, submitted,
                   peerVars>>

\* The sync manager reports a change of the sync state; a waiting request
\* is woken by the change to synced.
SetSynced(b) ==
    /\ phase = "serving"
    /\ b # synced
    /\ synced' = b
    /\ gate' = IF b /\ gate.st = "Waiting"
                 THEN [gate EXCEPT !.st = "Synced"]
                 ELSE gate
    /\ UNCHANGED <<inputs, startupVars, featureVars, resp, store, submitted,
                   peerVars>>

\* The ids under which the store may accept the bytes: a new id, or the id
\* that already holds these bytes.
AcceptableIDs(bytes) ==
    {m \in MessageIDs : m \notin DOMAIN store \/ store[m] = bytes}

\* The gate is passed: the submission runs and the handler answers.
PostMessagesExec ==
    /\ gate.st = "Synced"
    /\ ~gate.executed
    /\ \/ \E m \in AcceptableIDs(gate.body) :
             /\ store' = (m :> gate.body) @@ store
             /\ submitted' = (m :> gate.body) @@ submitted
             /\ resp' = HandlePostMessages("", Ok(m))
       \/ \E e \in {"InvalidParameter", "Internal"} :
             /\ resp' = HandlePostMessages("", Failed(e))
             /\ UNCHANGED <<store, submitted>>
    /\ gate' = [gate EXCEPT !.executed = TRUE, !.resp = resp']
    /\ UNCHANGED <<inputs, startupVars, featureVars, synced, peerVars>>

\* messageBytesByID: the stored bytes of a known message.
messageBytesByID(m) ==
    IF m \in DOMAIN store THEN Ok(store[m]) ELSE Failed("NotFound")

\* GET /messages/:messageID/raw
GetMessageBytes(m) ==
    /\ phase = "serving"
    /\ resp' = IF MessageBytesRoute \in routes
                 THEN HandleMessageBytes(m, messageBytesByID(m))
                 ELSE Unrouted(MessageBytesRoute, m)
    /\ UNCHANGED <<inputs, startupVars, featureVars, messageVars, peerVars>>

\* Start-up, then message submissions and raw fetches.
NextMessages ==
    \/ StartupNext
    \/ \E b \in MessageBytes : PostMessagesBegin(b)
    \/ \E t \in Instants : Tick(t)
    \/ \E b \in BOOLEAN : SetSynced(b)
    \/ PostMessagesExec
    \/ \E m \in MessageIDs : GetMessageBytes(m)

SpecMessages == Init /\ [][NextMessages]_vars

\* Time does not stop for a waiting request, and a request that passed the
\* gate goes on to run its operation.
SpecMessagesFair ==
    /\ SpecMessages
    /\ WF_vars(\E t \in Instants : Tick(t))
    /\ WF_vars(PostMessagesExec)

(***************************************************************************)
(* Peer management.                                                        *)
(***************************************************************************)

\* A mutant of HandleDeletePeer: the error of removePeer is dropped.
HandleDeletePeerAlways(p, err) ==
    NoContent(DeletePeerRoute, p, StatusNoContent)

\* The handler of DELETE /peers/:peerID.
HandleDeletePeer(p, err) ==
    IF err # "" THEN ErrorResponse(DeletePeerRoute, p, err)
    ELSE NoContent(DeletePeerRoute, p, StatusNoContent)

\* removePeer: the error it returns.
removePeer(p) == IF p \in peers THEN "" ELSE "NotFound"

\* DELETE /peers/:peerID
DeletePeer(p) ==
    /\ phase = "serving"
    /\ DeletePeerRoute \in routes
    /\ resp' = HandleDeletePeer(p, removePeer(p))
    /\ prevPeers' = peers
    /\ peers' = peers \ {p}
    /\ removed' = IF p \in peers THEN removed \cup {p} ELSE removed
    /\ UNCHANGED <<inputs, startupVars, featureVars, messageVars>>

\* GET /peers
ListPeers ==
    /\ phase = "serving"
    /\ ListPeersRoute \in routes
    /\ resp' = HandleJSON(ListPeersRoute, "", Ok(peers))
    /\ prevPeers' = peers
    /\ UNCHANGED <<inputs, startupVars, featureVars, messageVars, peers, removed>>

\* POST /peers
AddPeer(p) ==
    /\ phase = "serving"
    /\ AddPeerRoute \in routes
    /\ resp' = HandleJSON(AddPeerRoute, p, Ok(p))
    /\ prevPeers' = peers
    /\ peers' = peers \cup {p}
    /\ removed' = removed \ {p}
    /\ UNCHANGED <<inputs, startupVars, featureVars, messageVars>>

\* Start-up, then peer management requests.
NextPeers ==
    \/ StartupNext
    \/ \E p \in PeerIDs : DeletePeer(p)
    \/ ListPeers
    \/ \E p \in PeerIDs : AddPeer(p)

SpecPeers == Init /\ [][NextPeers]_vars

(***************************************************************************)
(* The handler configure binds to each route.  The operation a handler     *)
(* calls is seen here as the handler sees it: a call that returns a result *)
(* or an error.                                                            *)
(***************************************************************************)

\* The routes whose operations read or change the state of the model.
StatefulRoutes ==
    {InfoRoute, PostMessagesRoute, MessageBytesRoute,
     DeletePeerRoute, ListPeersRoute, AddPeerRoute}

\* A mutant of HandlerOf: the delete handler's answer is bound to every route.
HandlerOfNoContent(r, p, out) ==
    IF out.err # "" THEN ErrorResponse(r, p, out.err)
    ELSE NoContent(r, p, StatusNoContent)

\* The handler closure registered for route r, applied to what its
\* operation returned.
HandlerOf(r, p, out) ==
    CASE r = PostMessagesRoute -> HandlePostMessages(p, out)
      [] r = MessageBytesRoute -> HandleMessageBytes(p, out)
      [] r = DeletePeerRoute -> HandleDeletePeer(p, out.err)
      [] OTHER -> HandleJSON(r, p, out)

\* What the operation behind a route may return to its handler.
Results(r) ==
    {Failed(e) : e \in ErrKinds} \cup
    CASE r = InfoRoute -> {Ok(features)}
      [] r = PostMessagesRoute -> {Ok(m) : m \in MessageIDs}
      [] r = MessageBytesRoute -> {Ok(b) : b \in MessageBytes}
      [] r = DeletePeerRoute -> {Ok("")}
      [] r = ListPeersRoute -> {Ok(S) : S \in SUBSET PeerIDs}
      [] r = AddPeerRoute -> {Ok(p) : p \in PeerIDs}
      [] OTHER -> Outcomes(r)

\* A request for a stateful route is answered by the handler bound to it.
Answer(r) ==
    /\ phase = "serving"
    /\ IF r \in routes
         THEN \E out \in Results(r) : resp' = HandlerOf(r, "", out)
         ELSE resp' = Unrouted(r, "")
    /\ UNCHANGED <<inputs, startupVars, featureVars, messageVars, peerVars>>

\* Start-up, then requests for every route the plugins may have registered.
NextRoutes ==
    \/ StartupNext
    \/ \E r \in PassThroughRoutes : Serve(r)
    \/ \E r \in StatefulRoutes : Answer(r)

SpecRoutes == Init /\ [][NextRoutes]_vars

(***************************************************************************)
(* Properties.                                                             *)
(***************************************************************************)

V1Routes == V1FixedRoutes \cup {TipsRoute}

\* C1: once configure has completed, GET /tips is registered if and only if
\* the tip selector was supplied; without it a request for /tips is answered
\* as unrouted (404), never by a registered handler and never with a 5xx.
C1_TipsRoutedIffTipSelector ==
    /\ v1 = "configured" => (TipsRoute \in routes <=> "TipSelector" \in provided)
    /\ (resp.route = TipsRoute /\ "TipSelector" \notin provided)
          => resp.kind = "unrouted" /\ resp.status = 404

C1_Witness ==
    /\ phase = "serving"
    /\ "TipSelector" \notin provided
    /\ resp.route = TipsRoute
    /\ resp.kind = "unrouted"

\* a is b with some elements left out.
RECURSIVE IsSubsequence(_, _)
IsSubsequence(a, b) ==
    IF a = <<>> THEN TRUE
    ELSE IF b = <<>> THEN FALSE
    ELSE IF Head(a) = Head(b) THEN IsSubsequence(Tail(a), Tail(b))
    ELSE IsSubsequence(a, Tail(b))

\* C2: every AddFeature call made before serving begins, in whatever order
\* with configure, is in the feature list of every info response, in call
\* order, with none lost.
C2_AddsBeforeServingReported ==
    (resp.route = InfoRoute /\ resp.kind = "json")
        => IsSubsequence(addsBefore, resp.body)

\* C3: a gated request waits only while the node is not synced and less than
\* 2000 ms have passed; it reaches Synced before 2000 ms, and only then is the
\* operation executed; at 2000 ms it reaches TimedOut, the operation is not
\* executed and the answer is the "node not synced" failure (503); a waiting
\* request always ends in Synced or TimedOut, and a request that reached
\* Synced has its operation executed.
C3_GateSafety ==
    /\ gate.st \in {"Unchecked", "Waiting", "Synced", "TimedOut"}
    /\ gate.st = "Waiting" => gate.elapsed < 2000 /\ ~synced
    /\ gate.st = "Synced" => gate.elapsed < 2000
    /\ gate.st = "TimedOut" =>
          /\ gate.elapsed = 2000
          /\ ~gate.executed
          /\ gate.resp.err = "NotSynced"
          /\ gate.resp.status = 503
    /\ gate.executed => gate.st = "Synced" /\ gate.resp.err # "NotSynced"
    /\ gate.st \in {"Waiting", "Unchecked"} => gate.resp = NoResp

C3_SyncGate ==
    /\ []C3_GateSafety
    /\ (gate.st = "Waiting") ~> (gate.st \in {"Synced", "TimedOut"})
    /\ (gate.st = "Synced") ~> gate.executed

C3_Witness ==
    /\ gate.st = "TimedOut"
    /\ gate.elapsed = 2000
    /\ gate.resp.status = 503

\* C5: a successful POST /messages answers 201 with a Location header equal
\* to the message id in the body; a failed one sets no Location header and
\* writes no success response, only the error.
C5_PostMessagesCreated ==
    resp.route = PostMessagesRoute =>
        IF resp.err = ""
          THEN /\ resp.kind = "json"
               /\ resp.status = 201
               /\ resp.body \in DOMAIN store
               /\ resp.location = resp.body
          ELSE /\ resp.kind = "error"
               /\ resp.location = ""
               /\ resp.body = ""

C5_Witness ==
    /\ resp.route = PostMessagesRoute
    /\ resp.status = 201
    /\ resp.location \in MessageIDs

C7_DeletePeer ==
    /\ resp.route = DeletePeerRoute =>
          IF resp.param \in prevPeers
            THEN /\ resp.kind = "nocontent"
                 /\ resp.status = 204
                 /\ resp.body = ""
                 /\ peers = prevPeers \ {resp.param}
            ELSE /\ resp.kind = "error"
                 /\ resp.err = "NotFound"
                 /\ resp.status = 404
                 /\ peers = prevPeers
    /\ resp.route = ListPeersRoute => resp.body \cap removed = {}

C7_Witness ==
    /\ resp.route = ListPeersRoute
    /\ removed # {}
    /\ resp.body # {}

\* C4: once a request has been accepted, no AddFeature call changes the
\* feature list.
C4_FrozenAfterFirstRequest == [][resp.kind # "none" => features' = features]_vars

\* C8: on a node with no other feature contributors GET /info answers 200 with
\* a feature list that is <<"PoW">> when proof-of-work is enabled in the
\* configuration and is empty when it is not.
C8_FreshInfoFeatures ==
    (resp.route = InfoRoute /\ addsBefore = <<>> /\ addsAfter = <<>>)
        => /\ resp.kind = "json"
           /\ resp.status = 200
           /\ resp.body = IF cfgPoWEnabled THEN <<"PoW">> ELSE <<>>

C8_Witness ==
    /\ resp.route = InfoRoute
    /\ addsBefore = <<>> /\ addsAfter = <<>>
    /\ cfgPoWEnabled
    /\ resp.body = <<"PoW">>

\* C9: with a mandatory dependency or the router missing, or the RestAPI
\* plugin skipped, configure never completes, no v1 route is registered and no
\* request is served.
StartupMustFail ==
    \/ ~(V1MandatoryDeps \subseteq provided)
    \/ "Echo" \notin provided
    \/ restapiSkipped

C9_NoServiceWithoutMandatory ==
    StartupMustFail =>
        /\ v1 # "configured"
        /\ phase # "serving"
        /\ routes \cap V1Routes = {}
        /\ resp = NoResp
        /\ (v1 = "injected" /\ phase = "startup") => ENABLED ConfigureV1

C9_Witness ==
    /\ phase = "fatal"
    /\ restapiSkipped
    /\ v1 = "injected"
    /\ V1MandatoryDeps \cup {"Echo"} \subseteq provided

\* C10: unless the Debug plugin is enabled by name its configure never runs
\* and no debug route is registered; when it is configured, the nine debug
\* routes are registered, all as GET, under /api/plugins/debug and none under
\* /api/v1.
C10_DebugDisabledByDefault ==
    /\ ~debugEnabled =>
          /\ dbg = "loaded"
          /\ \A r \in routes : r.group # DebugGroup
          /\ resp.route \in DebugRoutes => resp.kind = "unrouted"
    /\ dbg = "configured" =>
          /\ DebugRoutes \subseteq routes
          /\ Cardinality({r \in routes : r.group = DebugGroup}) = 9
          /\ \A r \in routes : r.group = DebugGroup => r.method = "GET"
          /\ \A r \in DebugRoutes : r \notin V1Routes /\ r.group # V1Group

C10_Witness ==
    /\ ~debugEnabled
    /\ phase = "serving"
    /\ resp.route \in DebugRoutes
    /\ resp.kind = "unrouted"

\* C11: the success encoding is fixed by the route: the raw octet-stream
\* encoding only for GET /messages/:id/raw, the empty 204 only for
\* DELETE /peers/:id, the structured envelope for every other registered v1
\* and debug route (200, and 201 for POST /messages); a handler whose
\* operation returned an error writes no body.
C11_EncodingFixedByRoute ==
    resp.kind \notin {"none", "unrouted"} =>
        /\ resp.route \in routes
        /\ resp.route \in V1Routes \cup DebugRoutes
        /\ resp.kind = "blob" <=> (resp.route = MessageBytesRoute /\ resp.err = "")
        /\ resp.kind = "nocontent" <=> (resp.route = DeletePeerRoute /\ resp.err = "")
        /\ IF resp.err # ""
             THEN resp.kind = "error" /\ resp.body = "" /\ resp.location = ""
             ELSE CASE resp.route = MessageBytesRoute -> resp.status = 200
                    [] resp.route = DeletePeerRoute ->
                          resp.status = 204 /\ resp.body = ""
                    [] resp.route = PostMessagesRoute ->
                          resp.kind = "json" /\ resp.status = 201
                    [] OTHER -> resp.kind = "json" /\ resp.status = 200

C11_Witness ==
    /\ dbg = "configured"
    /\ resp.route = MessageBytesRoute
    /\ resp.kind = "blob"
    /\ resp.body \in MessageBytes

=============================================================================
